---- MODULE Spec2Model ----
(***************************************************************************)
(* Model of the IDAES flowsheet visualisation back end:                    *)
(*   idaes_ui/fv/fsvis.py        visualize(), _handle_existing_save_path() *)
(*   idaes_ui/fv/model_server.py FlowsheetServer, FlowsheetServerHandler   *)
(* The persistence layer (persist.DataStore, persist.DataStoreManager),    *)
(* flowsheet.FlowsheetDiff and the errors module are not part of the       *)
(* sources at hand; they are modelled from the design document.            *)
(*                                                                         *)
(* Strings are sequences of one-character strings, a document is a         *)
(* function from a set of top-level keys to values, a file is named by the *)
(* stem of its name (the ".json" suffix is left out).                      *)
(***************************************************************************)
EXTENDS Integers, Sequences, FiniteSets, TLC

\* ------------------------------------------------------------------ bounds
\* Number of operations (visualize calls and requests) of one run.
MaxOps == 2
\* Number of visualize calls of one save run.
MaxSaves == 3
\* Number of memory-only stores one run creates.
MaxMem == 1
\* Largest version ceiling the module global MAX_SAVED_VERSIONS is set to.
MaxCeiling == 2
\* Highest numbered file NAME-k.json a directory of the path runs holds.
MaxFileNo == 3
\* The longest name canonicalized in the naming runs.
MaxLen == 3
\* The longest query parsed in the parsing runs.
MaxQuery == 6

\* sys.maxsize, which replaces a ceiling of 0 (here the value of a 32-bit build).
maxsize == 2147483647

\* ------------------------------------------------------------- documents
Keys == {"a", "layout"}
Vals == {1, 2}
\* Every document over the top-level keys.
Docs == UNION {[D -> Vals] : D \in SUBSET Keys}
EmptyDoc == [k \in {} |-> 1]

\* What a store location that exists holds: a blank file, or a document.
Blank == [kind |-> "blank", doc |-> EmptyDoc]
Holds(d) == [kind |-> "doc", doc |-> d]

\* ----------------------------------------------------------------- names
Lower == {"a", "b", "c", "d", "e", "f", "g", "h", "i", "j", "k", "l", "m",
          "n", "o", "p", "q", "r", "s", "t", "u", "v", "w", "x", "y", "z"}
Upper == {"A", "B", "C", "D", "E", "F", "G", "H", "I", "J", "K", "L", "M",
          "N", "O", "P", "Q", "R", "S", "T", "U", "V", "W", "X", "Y", "Z"}
Digit == {"0", "1", "2", "3", "4", "5", "6", "7", "8", "9"}
\* The characters the class [^a-zA-Z0-9-._] does not match.
KeptChars == Lower \cup Upper \cup Digit \cup {"-", ".", "_"}

\* re.sub(r"[^a-zA-Z0-9-._]", "-", name)
ReplaceReserved(name) ==
    [i \in 1..Len(name) |-> IF name[i] \in KeptChars THEN name[i] ELSE "-"]

\* CollapseDashes left out: the dashes stay as the first substitution left them.
CollapseDashes_kept(s) == s

\* re.sub(r"-+", "-", s)
RECURSIVE CollapseDashes(_)
CollapseDashes(s) ==
    IF Len(s) <= 1 THEN s
    ELSE IF s[1] = "-" /\ s[2] = "-" THEN CollapseDashes(Tail(s))
    ELSE <<s[1]>> \o CollapseDashes(Tail(s))

canonical_flowsheet_name(name) == CollapseDashes(ReplaceReserved(name))

\* str(counter) in f"{name}-{counter}.json"
DigitChar(d) ==
    CASE d = 0 -> "0" [] d = 1 -> "1" [] d = 2 -> "2" [] d = 3 -> "3"
      [] d = 4 -> "4" [] d = 5 -> "5" [] d = 6 -> "6" [] d = 7 -> "7"
      [] d = 8 -> "8" [] d = 9 -> "9"

RECURSIVE IntStr(_)
IntStr(n) ==
    IF n < 10 THEN <<DigitChar(n)>>
    ELSE IntStr(n \div 10) \o <<DigitChar(n % 10)>>

\* save_dir / f"{name}-{counter}.json"
VersionPath(name, counter) == name \o <<"-">> \o IntStr(counter)

\* save_dir / f"{name}.json"
_pick_default_save_location(name) == name

\* ---------------------------------------------------------------- stores
\* The contents of the save directory and of the memory-only stores: a function
\* from the locations that exist (the files present, the buffers written) to
\* what they hold.
Exists(content, loc) == loc \in DOMAIN content

Put(content, loc, v) ==
    [l \in DOMAIN content \cup {loc} |-> IF l = loc THEN v ELSE content[l]]

\* persist.DataStore.create(save_path)
FileStore(path) == [kind |-> "file", loc |-> path]
\* persist.MemoryDataStore(), the n-th one of the process
MemoryStore(n) == [kind |-> "mem", loc |-> <<"<memory>", IntStr(n)>>]

\* DataStore.load(): "not found" when nothing was ever written, a processing
\* error when the content is not a document.
StoreLoad(content, store) ==
    IF ~Exists(content, store.loc)
    THEN [status |-> "ValueError", doc |-> EmptyDoc]
    ELSE IF content[store.loc].kind = "doc"
    THEN [status |-> "ok", doc |-> content[store.loc].doc]
    ELSE [status |-> "ProcessingError", doc |-> EmptyDoc]

\* What is handed to save(): a document, or the text of a request body, which
\* is parsed first.
DictData(d) == [kind |-> "dict", doc |-> d]
StrData(body) == [kind |-> "str", doc |-> body.doc, wellformed |-> body.kind = "json"]

\* DataStore.save(data)
StoreSave(content, store, data) ==
    IF data.kind = "str" /\ ~data.wellformed
    THEN [status |-> "ProcessingError", content |-> content]
    ELSE [status |-> "ok", content |-> Put(content, store.loc, Holds(data.doc))]

\* DataStoreManager.add(id_, store)
dsm_add(dsm, id, store) ==
    [i \in DOMAIN dsm \cup {id} |-> IF i = id THEN store ELSE dsm[i]]

\* DataStoreManager.load(id_)
dsm_load(dsm, content, id) ==
    IF id \notin DOMAIN dsm
    THEN [status |-> "KeyError", doc |-> EmptyDoc]
    ELSE StoreLoad(content, dsm[id])

\* DataStoreManager.save(id_, data)
dsm_save(dsm, content, id, data) ==
    IF id \notin DOMAIN dsm
    THEN [status |-> "KeyError", content |-> content]
    ELSE StoreSave(content, dsm[id], data)

\* ------------------------------------------------------------ FlowsheetDiff
\* The top-level keys present in either document with unequal values.
DiffKeys(saved, live) ==
    {k \in DOMAIN saved \cup DOMAIN live :
        \/ k \notin DOMAIN saved
        \/ k \notin DOMAIN live
        \/ saved[k] # live[k]}

\* FlowsheetDiff.merged(): the stored document when there is no diff; otherwise
\* the live value of every live key and the stored value of the other keys.
Merged(saved, live) ==
    IF DiffKeys(saved, live) = {} THEN saved
    ELSE [k \in DOMAIN saved \cup DOMAIN live |->
            IF k \in DOMAIN live THEN live[k] ELSE saved[k]]

\* ------------------------------------------------------------- live models
\* A flowsheet object is opaque; what matters is what its serializer does:
\* it yields a document, or fails with AttributeError/KeyError, or fails with
\* some other exception.
GoodModel(d) == [kind |-> "ok", doc |-> d]
BrokenModel == [kind |-> "AttributeError", doc |-> EmptyDoc]
FaultyModel == [kind |-> "TypeError", doc |-> EmptyDoc]

\* FlowsheetSerializer(flowsheet, id_).as_dict()
as_dict(flowsheet) == [status |-> flowsheet.kind, doc |-> flowsheet.doc]

\* FlowsheetServer._serialize_flowsheet
_serialize_flowsheet(flowsheet) ==
    LET r == as_dict(flowsheet) IN
    IF r.status = "AttributeError"
    THEN [status |-> "ValueError", doc |-> EmptyDoc]
    ELSE r

\* ------------------------------------------------- save-path resolution
\* ProbeLoop with the loop run once only: NAME-1 is taken unseen.
ProbeLoop_once(content, name, save_path, counter, max_versions) ==
    IF Exists(content, save_path) /\ counter < max_versions
    THEN [path |-> VersionPath(name, counter + 1), counter |-> counter + 1]
    ELSE [path |-> save_path, counter |-> counter]

\* The while loop of _handle_existing_save_path: probe NAME-1, NAME-2, ...
RECURSIVE ProbeLoop(_, _, _, _, _)
ProbeLoop(content, name, save_path, counter, max_versions) ==
    IF Exists(content, save_path) /\ counter < max_versions
    THEN ProbeLoop(content, name, VersionPath(name, counter + 1), counter + 1,
                   max_versions)
    ELSE [path |-> save_path, counter |-> counter]

\* _handle_existing_save_path without the versioning: the path is reused.
_handle_existing_save_path_reuse(content, name, save_path, max_versions, overwrite) ==
    [status |-> "ok", path |-> save_path,
     content |-> IF overwrite /\ Exists(content, save_path)
                 THEN Put(content, save_path, Blank) ELSE content]

\* _handle_existing_save_path taking every call for an overwrite.
_handle_existing_save_path_truncate(content, name, save_path, max_versions, overwrite) ==
    [status |-> "ok", path |-> save_path,
     content |-> IF Exists(content, save_path)
                 THEN Put(content, save_path, Blank) ELSE content]

\* fsvis._handle_existing_save_path(name, save_path, max_versions, overwrite)
\* in a directory holding `content`: the path to use, or TooManySavedVersions,
\* and the directory afterwards (overwrite blanks an existing file).
_handle_existing_save_path(content, name, save_path, max_versions, overwrite) ==
    IF overwrite
    THEN [status |-> "ok", path |-> save_path,
          content |-> IF Exists(content, save_path)
                      THEN Put(content, save_path, Blank) ELSE content]
    ELSE IF ~Exists(content, save_path)
    THEN [status |-> "ok", path |-> save_path, content |-> content]
    ELSE LET limit == IF max_versions = 0 THEN maxsize ELSE max_versions
             probe == ProbeLoop(content, name, save_path, 0, limit)
         IN  IF probe.counter = limit
             THEN [status |-> "TooManySavedVersions", path |-> save_path,
                   content |-> content]
             ELSE [status |-> "ok", path |-> probe.path, content |-> content]

\* --------------------------------------------------------- FlowsheetServer
\* FlowsheetServer.save_flowsheet(id_, flowsheet)
save_flowsheet(dsm, content, id, data) ==
    LET r == dsm_save(dsm, content, id, data) IN
    IF r.status \in {"DatastoreError", "KeyError"}
    THEN [status |-> "ProcessingError", content |-> content]
    ELSE r

Failed(status, content) ==
    [status |-> status, doc |-> EmptyDoc, saved |-> FALSE, content |-> content]

\* Reconcile replacing the stored document by the live one wholesale.
Reconcile_wholesale(dsm, content, id, saved, obj_dict) ==
    IF DiffKeys(saved, obj_dict) = {}
    THEN [status |-> "ok", doc |-> saved, saved |-> FALSE, content |-> content]
    ELSE LET w == save_flowsheet(dsm, content, id, DictData(obj_dict)) IN
         IF w.status # "ok" THEN Failed(w.status, content)
         ELSE [status |-> "ok", doc |-> obj_dict, saved |-> TRUE,
               content |-> w.content]

\* Reconcile saving the merged value whether or not there is a difference.
Reconcile_always(dsm, content, id, saved, obj_dict) ==
    LET merged == Merged(saved, obj_dict)
        w == save_flowsheet(dsm, content, id, DictData(merged))
    IN  IF w.status # "ok" THEN Failed(w.status, content)
        ELSE [status |-> "ok", doc |-> merged, saved |-> TRUE, content |-> w.content]

\* update_flowsheet, from the comparison on: save the merged value when the
\* stored and the live document differ, and return the merged value.
Reconcile(dsm, content, id, saved, obj_dict) ==
    LET diff == DiffKeys(saved, obj_dict)
        merged == Merged(saved, obj_dict)
    IN  IF diff = {}
        THEN [status |-> "ok", doc |-> merged, saved |-> FALSE, content |-> content]
        ELSE LET w == save_flowsheet(dsm, content, id, DictData(merged)) IN
             IF w.status # "ok" THEN Failed(w.status, content)
             ELSE [status |-> "ok", doc |-> merged, saved |-> TRUE,
                   content |-> w.content]

\* update_flowsheet looking the live object up before the stored document.
update_flowsheet_memory_first(dsm, flowsheets, content, id) ==
    LET ld == dsm_load(dsm, content, id) IN
    IF id \notin DOMAIN flowsheets
    THEN Failed("FlowsheetNotFoundInMemory", content)
    ELSE IF ld.status = "KeyError" THEN Failed("FlowsheetUnknown", content)
    ELSE IF ld.status = "ValueError"
    THEN Failed("FlowsheetNotFoundInDatastore", content)
    ELSE IF ld.status # "ok" THEN Failed(ld.status, content)
    ELSE LET ser == _serialize_flowsheet(flowsheets[id]) IN
         IF ser.status = "ValueError" THEN Failed("ProcessingError", content)
         ELSE IF ser.status # "ok" THEN Failed(ser.status, content)
         ELSE Reconcile(dsm, content, id, ld.doc, ser.doc)

\* FlowsheetServer.update_flowsheet(id_): the outcome (the merged document or
\* the error raised), whether a save was made, and the stores afterwards.
update_flowsheet(dsm, flowsheets, content, id) ==
    LET ld == dsm_load(dsm, content, id) IN
    IF ld.status = "KeyError" THEN Failed("FlowsheetUnknown", content)
    ELSE IF ld.status = "ValueError"
    THEN Failed("FlowsheetNotFoundInDatastore", content)
    ELSE IF ld.status # "ok" THEN Failed(ld.status, content)
    ELSE IF id \notin DOMAIN flowsheets
    THEN Failed("FlowsheetNotFoundInMemory", content)
    ELSE LET ser == _serialize_flowsheet(flowsheets[id]) IN
         IF ser.status = "ValueError" THEN Failed("ProcessingError", content)
         ELSE IF ser.status # "ok" THEN Failed(ser.status, content)
         ELSE Reconcile(dsm, content, id, ld.doc, ser.doc)

\* FirstSave without the update: the live document is saved over the store.
FirstSave_overwrite(dsm, flowsheets, content, id, flowsheet, store) ==
    LET fs_dict == as_dict(flowsheet) IN
    IF fs_dict.status # "ok" THEN Failed(fs_dict.status, content)
    ELSE LET w == StoreSave(content, store, DictData(fs_dict.doc)) IN
         [status |-> w.status, doc |-> fs_dict.doc,
          saved |-> w.status = "ok", content |-> w.content]

\* add_flowsheet, after the registration: try to update; when the store holds
\* nothing, serialize the model and save it.
FirstSave(dsm, flowsheets, content, id, flowsheet, store) ==
    LET u == update_flowsheet(dsm, flowsheets, content, id) IN
    IF u.status = "FlowsheetNotFoundInDatastore"
    THEN LET fs_dict == as_dict(flowsheet) IN
         IF fs_dict.status # "ok" THEN Failed(fs_dict.status, content)
         ELSE LET w == StoreSave(content, store, DictData(fs_dict.doc)) IN
              [status |-> w.status, doc |-> fs_dict.doc,
               saved |-> w.status = "ok", content |-> w.content]
    ELSE u

\* add_flowsheet keeping the store an id is already bound to.
add_flowsheet_keep(dsm, flowsheets, content, name, flowsheet, store) ==
    LET id == canonical_flowsheet_name(name)
        fl == [i \in DOMAIN flowsheets \cup {id} |->
                  IF i = id THEN flowsheet ELSE flowsheets[i]]
        ds == IF id \in DOMAIN dsm THEN dsm ELSE dsm_add(dsm, id, store)
        r == FirstSave(ds, fl, content, id, flowsheet, ds[id])
    IN  [status |-> r.status, id |-> id, doc |-> r.doc, saved |-> r.saved,
         flowsheets |-> fl, dsm |-> ds, content |-> r.content]

\* add_flowsheet registering under the name as given.
add_flowsheet_raw(dsm, flowsheets, content, name, flowsheet, store) ==
    LET fl == [i \in DOMAIN flowsheets \cup {name} |->
                  IF i = name THEN flowsheet ELSE flowsheets[i]]
        ds == dsm_add(dsm, name, store)
        r == FirstSave(ds, fl, content, name, flowsheet, store)
    IN  [status |-> r.status, id |-> name, doc |-> r.doc, saved |-> r.saved,
         flowsheets |-> fl, dsm |-> ds, content |-> r.content]

\* FlowsheetServer.add_flowsheet(id_, flowsheet, store): the id returned or the
\* error raised, the registries and stores afterwards, and (doc) the document
\* the update returned or the first save wrote.
add_flowsheet(dsm, flowsheets, content, name, flowsheet, store) ==
    LET id == canonical_flowsheet_name(name)
        fl == [i \in DOMAIN flowsheets \cup {id} |->
                  IF i = id THEN flowsheet ELSE flowsheets[i]]
        ds == dsm_add(dsm, id, store)
        r == FirstSave(ds, fl, content, id, flowsheet, store)
    IN  [status |-> r.status, id |-> id, doc |-> r.doc, saved |-> r.saved,
         flowsheets |-> fl, dsm |-> ds, content |-> r.content]

\* ---------------------------------------------------------------- visualize
NoStore == [kind |-> "none", loc |-> <<>>]
NoModel == [kind |-> "none", doc |-> EmptyDoc]

\* The `save` argument: not given (or True), False, or a path.
SaveDefault == [kind |-> "default", path |-> <<>>]
SaveNothing == [kind |-> "none", path |-> <<>>]
SaveAs(path) == [kind |-> "path", path |-> path]

\* visualize(), "Set up save location" and "Create datastore for save location":
\* the store to register, or the error raised, and the directory afterwards.
\* nmem counts the memory stores created so far.
datastore_for(content, nmem, name, save, load_from_saved, overwrite, max_versions) ==
    LET save_path == IF save.kind = "default"
                     THEN _pick_default_save_location(name) ELSE save.path
    IN  IF save.kind = "none"
        THEN [status |-> "ok", store |-> MemoryStore(nmem + 1), content |-> content]
        ELSE IF Exists(content, save_path) /\ load_from_saved
        THEN LET ld == StoreLoad(content, FileStore(save_path)) IN
             [status |-> ld.status, store |-> FileStore(save_path),
              content |-> content]
        ELSE LET h == _handle_existing_save_path(content, name, save_path,
                                                 max_versions, overwrite)
             IN  IF h.status = "TooManySavedVersions"
                 THEN [status |-> "RuntimeError", store |-> NoStore,
                       content |-> h.content]
                 ELSE [status |-> "ok", store |-> FileStore(h.path),
                       content |-> h.content]

\* visualize(), "if new_name != name": the name put in the URL and handed to
\* the result.
UrlName(name, new_name) == IF new_name # name THEN new_name ELSE name

\* visualize(), "Add our flowsheet to it": what the call raises, if anything.
RaisedByAdd(status) ==
    IF status \in {"ProcessingError", "DatastoreError"} THEN "VisualizerError"
    ELSE status

\* ------------------------------------------------- FlowsheetServerHandler
\* A request's id parameter when the query has none.
None == <<"<None>">>

\* A URL is taken in the two parts urlparse makes of it, the path and the
\* query. A query is a sequence of characters; the words "id", "setting_key",
\* "save_time_interval" and "v" stand for themselves, as one character each.
\* The queries of a request whose URL has no query: None.
NoQueries == [none |-> TRUE, map |-> << >>]

\* s.split(sep): the pieces of s between the occurrences of sep
RECURSIVE Split(_, _)
Split(s, sep) ==
    IF \A i \in 1..Len(s) : s[i] # sep THEN <<s>>
    ELSE LET i == CHOOSE k \in 1..Len(s) :
                      s[k] = sep /\ \A j \in 1..(k - 1) : s[j] # sep
         IN  <<SubSeq(s, 1, i - 1)>> \o Split(SubSeq(s, i + 1, Len(s)), sep)

\* The loop of _parse_flowsheet_url: an item that splits in two at "=" is
\* entered, any other is skipped.
RECURSIVE AddItems(_, _)
AddItems(map, items) ==
    IF items = <<>> THEN map
    ELSE LET parts == Split(Head(items), "=") IN
         AddItems(IF Len(parts) = 2 THEN Put(map, parts[1], parts[2]) ELSE map,
                  Tail(items))

\* _parse_flowsheet_url giving up the whole query at the first item that is
\* not a name=value pair.
_parse_flowsheet_url_strict(query) ==
    IF query = <<>> THEN NoQueries
    ELSE IF \E i \in 1..Len(Split(query, "&")) :
               Len(Split(Split(query, "&")[i], "=")) # 2
    THEN [none |-> FALSE, map |-> << >>]
    ELSE [none |-> FALSE, map |-> AddItems(<< >>, Split(query, "&"))]

\* FlowsheetServerHandler._parse_flowsheet_url: the queries of a URL with the
\* given query part
_parse_flowsheet_url(query) ==
    IF query = <<>> THEN NoQueries
    ELSE [none |-> FALSE, map |-> AddItems(<< >>, Split(query, "&"))]

\* queries.get(key, None) if queries else None
QueryGet(queries, key) ==
    IF ~queries.none /\ key \in DOMAIN queries.map THEN queries.map[key]
    ELSE None

\* What get_setting returns: None, or the value set.
NoSetting == [kind |-> "None", value |-> 0]
SettingValue(v) == [kind |-> "value", value |-> v]

\* FlowsheetServer.add_setting(key, value)
add_setting(settings_block, key, value) == Put(settings_block, key, value)

\* get_setting answering an unknown key with a default value.
get_setting_default(settings_block, key) ==
    IF key \notin DOMAIN settings_block THEN SettingValue(0)
    ELSE SettingValue(settings_block[key])

\* FlowsheetServer.get_setting(key)
get_setting(settings_block, key) ==
    IF key \notin DOMAIN settings_block THEN NoSetting
    ELSE SettingValue(settings_block[key])

\* Request bodies: the text of a document, text that is no document, bytes
\* that are not UTF-8.
JsonBody(d) == [kind |-> "json", doc |-> d]
MalformedBody == [kind |-> "malformed", doc |-> EmptyDoc]
UndecodableBody == [kind |-> "bytes", doc |-> EmptyDoc]

\* GetFsCode reporting every not-found condition as 404.
GetFsCode_notfound(status) ==
    IF status \in {"FlowsheetUnknown", "FlowsheetNotFoundInDatastore",
                   "FlowsheetNotFoundInMemory"} THEN 404
    ELSE IF status = "ProcessingError" THEN 500
    ELSE IF status = "ok" THEN 200
    ELSE 0

\* The status code _get_fs answers with for an outcome of update_flowsheet;
\* 0 when the exception is not caught and no response is written.
GetFsCode(status) ==
    IF status = "FlowsheetUnknown" THEN 404
    ELSE IF status \in {"FlowsheetNotFoundInDatastore",
                        "FlowsheetNotFoundInMemory", "ProcessingError"} THEN 500
    ELSE IF status = "ok" THEN 200
    ELSE 0

\* do_GET for /fs, with _get_fs
do_GET_fs(dsm, flowsheets, content, id) ==
    IF id = None
    THEN [code |-> 400, status |-> "no id", doc |-> EmptyDoc, saved |-> FALSE,
          content |-> content]
    ELSE LET u == update_flowsheet(dsm, flowsheets, content, id) IN
         [code |-> GetFsCode(u.status), status |-> u.status, doc |-> u.doc,
          saved |-> u.saved, content |-> u.content]

\* FlowsheetServerHandler._put_fs
_put_fs(dsm, content, id, body) ==
    IF body.kind = "bytes"
    THEN [code |-> 0, status |-> "UnicodeDecodeError", saved |-> FALSE,
          content |-> content]
    ELSE LET w == save_flowsheet(dsm, content, id, StrData(body)) IN
         [code |-> IF w.status = "ProcessingError" THEN 400
                   ELSE IF w.status # "ok" THEN 500 ELSE 200,
          status |-> w.status, saved |-> w.status = "ok", content |-> w.content]

\* do_PUT for /fs
do_PUT_fs(dsm, content, id, body) ==
    IF id = None
    THEN [code |-> 400, status |-> "no id", saved |-> FALSE, content |-> content]
    ELSE _put_fs(dsm, content, id, body)

\* What a GET handler did: the response code, the call's outcome, what was
\* parsed, and the stores afterwards.
Answer(queries, id, content) ==
    [code |-> 0, status |-> "none", queries |-> queries, id |-> id,
     doc |-> EmptyDoc, saved |-> FALSE, content |-> content,
     setting |-> NoSetting]

\* FlowsheetServerHandler._get_app
_get_app(a) == [a EXCEPT !.code = 200, !.status = "ok"]

\* FlowsheetServerHandler._get_setting
_get_setting(a, settings_block, setting_key) ==
    [a EXCEPT !.code = 200, !.status = "ok",
              !.setting = get_setting(settings_block, setting_key)]

\* FlowsheetServerHandler._get_diagnostics; diag is what the diagnostics of the
\* flowsheet come to: "ok", or the exception they raise.
_get_diagnostics(a, flowsheets, id, diag) ==
    IF id \notin DOMAIN flowsheets THEN [a EXCEPT !.status = "KeyError"]
    ELSE IF diag # "ok" THEN [a EXCEPT !.status = diag]
    ELSE [a EXCEPT !.code = 200, !.status = "ok"]

\* do_GET running the handler of the path whether or not the id is there.
do_GET_unchecked(settings_block, dsm, flowsheets, content, path, query, diag) ==
    LET queries == _parse_flowsheet_url(query)
        id == QueryGet(queries, <<"id">>)
        a == Answer(queries, id, content)
        u == update_flowsheet(dsm, flowsheets, content, id)
    IN  IF path = "/app" THEN _get_app(a)
        ELSE IF path = "/fs"
        THEN [a EXCEPT !.code = GetFsCode(u.status), !.status = u.status,
                       !.doc = u.doc, !.saved = u.saved, !.content = u.content]
        ELSE _get_setting(a, settings_block, QueryGet(queries, <<"setting_key">>))

\* FlowsheetServerHandler.do_GET; a path that is none of the routes names a
\* file of the static directory, which is not there.
do_GET(settings_block, dsm, flowsheets, content, path, query, diag) ==
    LET queries == _parse_flowsheet_url(query)
        id == QueryGet(queries, <<"id">>)
        a == Answer(queries, id, content)
    IN  IF path \in {"/app", "/fs"} /\ id = None
        THEN [a EXCEPT !.code = 400, !.status = "no id"]
        ELSE IF path = "/app" THEN _get_app(a)
        ELSE IF path = "/fs"
        THEN LET r == do_GET_fs(dsm, flowsheets, content, id) IN
             [a EXCEPT !.code = r.code, !.status = r.status, !.doc = r.doc,
                       !.saved = r.saved, !.content = r.content]
        ELSE IF path = "/setting"
        THEN LET setting_key == QueryGet(queries, <<"setting_key">>) IN
             IF setting_key = None
             THEN [a EXCEPT !.code = 400, !.status = "no setting_key"]
             ELSE _get_setting(a, settings_block, setting_key)
        ELSE IF path = "/diagnostics"
        THEN _get_diagnostics(a, flowsheets, id, diag)
        ELSE [a EXCEPT !.code = 404, !.status = "no file"]

\* The body of a PUT /run_diagnostic: the text of an object with the entries
\* "id" and "function_name" (function tells whether the toolbox has an
\* attribute of that name), or text or bytes that are no such thing.
DiagnosticBody(kind, id, function) ==
    [kind |-> kind, doc |-> EmptyDoc, id |-> id, function |-> function]

\* FlowsheetServerHandler._put_diagnostic: the code of the last response
\* written, the exception caught if any, and the number of responses written.
\* For a function the toolbox does not have, the error is written and then
\* output_stream is read unbound; the handler of that exception writes again.
_put_diagnostic(flowsheets, body, diag) ==
    IF body.kind = "bytes"
    THEN [code |-> 500, status |-> "UnicodeDecodeError", responses |-> 1]
    ELSE IF body.kind # "json"
    THEN [code |-> 500, status |-> "JSONDecodeError", responses |-> 1]
    ELSE IF body.id \notin DOMAIN flowsheets
    THEN [code |-> 500, status |-> "KeyError", responses |-> 1]
    ELSE IF body.function # "known"
    THEN [code |-> 500, status |-> "UnboundLocalError", responses |-> 2]
    ELSE IF diag # "ok" THEN [code |-> 500, status |-> diag, responses |-> 1]
    ELSE [code |-> 200, status |-> "ok", responses |-> 1]

\* FlowsheetServerHandler.do_PUT; a path that is none of the two routes is
\* left without a response.
do_PUT(dsm, flowsheets, content, path, query, body, diag) ==
    LET queries == _parse_flowsheet_url(query)
        id == QueryGet(queries, <<"id">>)
        r == do_PUT_fs(dsm, content, id, body)
        d == _put_diagnostic(flowsheets, body, diag)
        a == [code |-> 0, status |-> "no route", queries |-> queries, id |-> id,
              saved |-> FALSE, content |-> content, responses |-> 0]
    IN  IF path = "/fs"
        THEN [a EXCEPT !.code = r.code, !.status = r.status, !.saved = r.saved,
                       !.content = r.content,
                       !.responses = IF r.code = 0 THEN 0 ELSE 1]
        ELSE IF path = "/run_diagnostic"
        THEN [a EXCEPT !.code = d.code, !.status = d.status,
                       !.responses = d.responses]
        ELSE a

\* -------------------------------------------------------------------- state
VARIABLES
    web_server,          \* fsvis.web_server is not None
    settings_block,      \* FlowsheetServer._settings_block
    flowsheets,          \* FlowsheetServer._flowsheets: id -> flowsheet object
    dsm,                 \* FlowsheetServer._dsm: id -> store
    content,             \* what the files and memory stores hold
    nmem,                \* memory stores created so far
    max_saved_versions,  \* fsvis.MAX_SAVED_VERSIONS
    ops,                 \* operations run so far
    last,                \* the last operation: its inputs and its outcome
    saves,               \* the visualize calls so far (kept by the save runs)
    adding,              \* the add_flowsheet call under way in the caller's thread
    updating,            \* the update_flowsheet call under way in the server thread
    registered           \* the <<id, flowsheet, store>> given to add_flowsheet so far

vars == <<web_server, settings_block, flowsheets, dsm, content, nmem,
          max_saved_versions, ops, last, saves, adding, updating, registered>>

\* The value of fsvis.MAX_SAVED_VERSIONS as shipped.
DefaultMaxSavedVersions == 100

\* ------------------------------------------------------------------- inputs
\* Flowsheet names: one that is its own canonical form, one that is not.
Names == {<<"x">>, <<"x", "~">>}
\* The names and request ids of the server runs.
ServerNames == {<<"x", "~">>}
RequestIds == {canonical_flowsheet_name(n) : n \in ServerNames}
              \cup ServerNames \cup {None}
\* Flowsheet objects: the serializer yields the model's part of a document (it
\* knows nothing of the layout), or fails.
LiveDocs == {d \in Docs : "layout" \notin DOMAIN d}
Models == {GoodModel(d) : d \in LiveDocs} \cup {BrokenModel, FaultyModel}
\* <<save, load_from_saved, overwrite>>; the two flags play no part when
\* nothing is saved, and are left at their defaults then.
SaveArgs == {<<SaveDefault, lfs, ow>> : lfs \in BOOLEAN, ow \in BOOLEAN}
            \cup {<<SaveNothing, TRUE, FALSE>>}
Intervals == {5000}
Bodies == {JsonBody(d) : d \in Docs} \cup {MalformedBody, UndecodableBody}

NoLoad == [status |-> "none", doc |-> EmptyDoc]
NoArgs == [save_path |-> <<>>, max_versions |-> 0, overwrite |-> FALSE, dir |-> {}]
\* The record of an operation: op, the operation; name, id, args, sent, its
\* inputs; S, what the store at hand held when it began (after the save path
\* was resolved, for visualize), L, the flowsheet object at hand, store, the
\* store at hand; status, the outcome ("ok" or the exception raised); code, the
\* response status (0: none); doc, the document returned by update_flowsheet,
\* or written by the first save; saved, whether a store's save() was run and
\* succeeded; changed, whether any file or buffer is different afterwards;
\* url, the id in the URL visualize opens and hands to its result; path and
\* query, the two parts of a request's URL, queries, what was parsed from the
\* query; setting, the value a GET /setting answered with; responses, the
\* number of responses a PUT wrote.
NoOp == [op |-> "none", name |-> <<>>, id |-> <<>>, args |-> NoArgs,
         status |-> "none", code |-> 0,
         doc |-> EmptyDoc, sent |-> EmptyDoc, saved |-> FALSE, changed |-> FALSE,
         S |-> NoLoad, L |-> NoModel, store |-> NoStore, url |-> <<>>,
         path |-> "", query |-> <<>>, queries |-> NoQueries, setting |-> NoSetting,
         responses |-> 0]

EmptyMap == [i \in {} |-> NoStore]

\* No call under way in a thread.
NoAdd == [pc |-> "idle", id |-> <<>>, flowsheet |-> NoModel, store |-> NoStore, saved |-> NoLoad]
NoUpdate == [pc |-> "idle", id |-> <<>>, flowsheet |-> NoModel, store |-> NoStore, saved |-> NoLoad]

\* A new process: no server yet, empty registries.
InitProcess ==
    /\ web_server = FALSE
    /\ settings_block = [k \in {} |-> 0]
    /\ flowsheets = EmptyMap
    /\ dsm = EmptyMap
    /\ nmem = 0
    /\ ops = 0
    /\ last = NoOp
    /\ saves = <<>>
    /\ adding = NoAdd
    /\ updating = NoUpdate
    /\ registered = {}

\* The save directory is empty, or holds a file an earlier process saved.
Init ==
    /\ InitProcess
    /\ \/ content = EmptyMap
       \/ \E n \in ServerNames, d \in Docs :
             content = Put(EmptyMap, _pick_default_save_location(n), Holds(d))
    /\ max_saved_versions = DefaultMaxSavedVersions


\* ------------------------------------------------------------------ actions
\* visualize(flowsheet, name, save, load_from_saved, save_time_interval, overwrite)
Visualize(flowsheet, name, save, load_from_saved, save_time_interval, overwrite, track) ==
    /\ UNCHANGED <<adding, updating, registered>>
    /\ IF track THEN Len(saves) < MaxSaves ELSE ops < MaxOps
    /\ save.kind = "none" => nmem < MaxMem
    /\ ops' = ops + 1
    /\ web_server' = TRUE
    /\ settings_block' =
         IF web_server THEN settings_block
         ELSE add_setting(settings_block, <<"save_time_interval">>,
                          save_time_interval)
    /\ UNCHANGED max_saved_versions
    /\ LET ds == datastore_for(content, nmem, name, save, load_from_saved,
                               overwrite, max_saved_versions)
           a == add_flowsheet(dsm, flowsheets, ds.content, name, flowsheet,
                              ds.store)
           added == ds.status = "ok"
           raised == IF added THEN RaisedByAdd(a.status) ELSE ds.status
           rec == [op |-> "visualize", name |-> name,
                   id |-> IF added THEN a.id ELSE <<>>, args |-> NoArgs,
                   status |-> raised, code |-> 0,
                   doc |-> IF added THEN a.doc ELSE EmptyDoc,
                   sent |-> EmptyDoc,
                   saved |-> added /\ a.saved,
                   changed |-> content' # content,
                   S |-> IF added THEN StoreLoad(ds.content, ds.store) ELSE NoLoad,
                   L |-> flowsheet,
                   store |-> ds.store,
                   url |-> IF raised = "ok" THEN UrlName(name, a.id) ELSE <<>>,
                   path |-> "", query |-> <<>>, queries |-> NoQueries,
                   setting |-> NoSetting, responses |-> 0]
       IN  /\ nmem' = IF save.kind = "none" THEN nmem + 1 ELSE nmem
           /\ content' = IF added THEN a.content ELSE ds.content
           /\ flowsheets' = IF added THEN a.flowsheets ELSE flowsheets
           /\ dsm' = IF added THEN a.dsm ELSE dsm
           /\ last' = rec
           /\ saves' = IF track
                       THEN Append(saves, [overwrite |-> overwrite,
                                           load_from_saved |-> load_from_saved,
                                           name |-> name,
                                           file |-> save.kind # "none",
                                           existed |->
                                             /\ save.kind = "default"
                                             /\ Exists(content,
                                                  _pick_default_save_location(name)),
                                           status |-> raised,
                                           loc |-> ds.store.loc])
                       ELSE saves

\* GET /fs?id=...
GetFs(id) ==
    /\ UNCHANGED <<adding, updating, registered>>
    /\ ops < MaxOps
    /\ ops' = ops + 1
    /\ LET r == do_GET_fs(dsm, flowsheets, content, id) IN
       /\ content' = r.content
       /\ last' = [op |-> "get_fs", name |-> <<>>, id |-> id, args |-> NoArgs,
                   status |-> r.status,
                   code |-> r.code, doc |-> r.doc, sent |-> EmptyDoc,
                   saved |-> r.saved,
                   changed |-> r.content # content,
                   S |-> IF id \in DOMAIN dsm THEN StoreLoad(content, dsm[id])
                         ELSE NoLoad,
                   L |-> IF id \in DOMAIN flowsheets THEN flowsheets[id]
                         ELSE NoModel,
                   store |-> IF id \in DOMAIN dsm THEN dsm[id] ELSE NoStore,
                   url |-> <<>>, path |-> "/fs", query |-> <<>>,
                   queries |-> NoQueries, setting |-> NoSetting,
                   responses |-> 0]
    /\ UNCHANGED <<web_server, settings_block, flowsheets, dsm, nmem,
                   max_saved_versions, saves>>

\* PUT /fs?id=... with a body
PutFs(id, body) ==
    /\ UNCHANGED <<adding, updating, registered>>
    /\ ops < MaxOps
    /\ ops' = ops + 1
    /\ LET r == do_PUT_fs(dsm, content, id, body) IN
       /\ content' = r.content
       /\ last' = [op |-> "put_fs", name |-> <<>>, id |-> id, args |-> NoArgs,
                   status |-> r.status,
                   code |-> r.code, doc |-> EmptyDoc, sent |-> body.doc,
                   saved |-> r.saved,
                   changed |-> r.content # content,
                   S |-> IF id \in DOMAIN dsm THEN StoreLoad(content, dsm[id])
                         ELSE NoLoad,
                   L |-> [kind |-> body.kind, doc |-> body.doc],
                   store |-> IF id \in DOMAIN dsm THEN dsm[id] ELSE NoStore,
                   url |-> <<>>, path |-> "/fs", query |-> <<>>,
                   queries |-> NoQueries, setting |-> NoSetting,
                   responses |-> IF r.code = 0 THEN 0 ELSE 1]
    /\ UNCHANGED <<web_server, settings_block, flowsheets, dsm, nmem,
                   max_saved_versions, saves>>

\* _handle_existing_save_path(name, save_path, max_versions, overwrite), called
\* on its own
ResolveSavePath(name, save_path, max_versions, overwrite) ==
    /\ UNCHANGED <<adding, updating, registered>>
    /\ ops < MaxOps
    /\ ops' = ops + 1
    /\ LET h == _handle_existing_save_path(content, name, save_path,
                                           max_versions, overwrite)
       IN  /\ content' = h.content
           /\ last' = [NoOp EXCEPT
                         !.op = "resolve", !.name = name,
                         !.args = [save_path |-> save_path,
                                   max_versions |-> max_versions,
                                   overwrite |-> overwrite,
                                   dir |-> DOMAIN content],
                         !.status = h.status,
                         !.changed = h.content # content,
                         !.store = IF h.status = "ok" THEN FileStore(h.path)
                                   ELSE NoStore]
    /\ UNCHANGED <<web_server, settings_block, flowsheets, dsm, nmem,
                   max_saved_versions, saves>>

Next ==
    \/ \E m \in Models, n \in ServerNames, s \in SaveArgs, t \in Intervals :
          Visualize(m, n, s[1], s[2], t, s[3], FALSE)
    \/ \E id \in RequestIds : GetFs(id)
    \/ \E id \in RequestIds, b \in Bodies : PutFs(id, b)

Spec == Init /\ [][Next]_vars

\* ----------------------------------------------- save-path resolution runs
\* The files of a save directory: the base paths and the numbered versions.
PathNames == {<<"x">>}
BasePaths == {<<"x">>, <<"y">>}
DirFiles == BasePaths \cup
            {VersionPath(n, k) : n \in PathNames, k \in 1..MaxFileNo}

\* Any directory, each file holding some document.
InitPath ==
    /\ InitProcess
    /\ \E dir \in SUBSET DirFiles : content = [f \in dir |-> Holds(EmptyDoc)]
    /\ max_saved_versions = DefaultMaxSavedVersions

NextPath ==
    \E n \in PathNames, p \in BasePaths, mv \in 0..MaxCeiling, ow \in BOOLEAN :
        ResolveSavePath(n, p, mv, ow)

SpecPath == InitPath /\ [][NextPath]_vars

\* ------------------------------------------------------------------ save runs
\* Successive visualize calls for one name in a directory that starts empty,
\* with MAX_SAVED_VERSIONS as shipped or set to a small ceiling.
SaveNames == {<<"x">>}

InitSave ==
    /\ InitProcess
    /\ content = EmptyMap
    /\ max_saved_versions \in {DefaultMaxSavedVersions, MaxCeiling}

NextSave ==
    \E m \in Models, n \in SaveNames, s \in SaveArgs, t \in Intervals :
        Visualize(m, n, s[1], s[2], t, s[3], TRUE)

SpecSave == InitSave /\ [][NextSave]_vars

\* ------------------------------------------------------------ request runs
\* A process that calls visualize for the name "v" and add_setting, and whose
\* server answers GET and PUT requests with and without their parameters.
RequestNames == {<<"v">>}
RequestModels == {GoodModel(d) : d \in LiveDocs}
RequestIntervals == {1000, 5000}
SettingKeys == {<<"save_time_interval">>, <<"v">>}
GetPaths == {"/app", "/fs", "/setting"}
PutPaths == {"/fs"}
RequestQueries ==
    {<<>>,
     <<"id", "=", "v">>,
     <<"id">>,
     <<"id", "=", "v", "=", "v">>,
     <<"&", "id", "=", "v">>,
     <<"v", "=", "v">>,
     <<"setting_key", "=", "save_time_interval">>,
     <<"setting_key", "=", "v">>,
     <<"setting_key">>}
RequestBodies == {JsonBody(EmptyDoc), MalformedBody}

\* server.add_setting(key, value), called by the process on the server that
\* visualize returned
AddSetting(key, value) ==
    /\ UNCHANGED <<adding, updating, registered>>
    /\ web_server
    /\ ops < MaxOps
    /\ ops' = ops + 1
    /\ settings_block' = add_setting(settings_block, key, value)
    /\ last' = [NoOp EXCEPT !.op = "add_setting", !.name = key]
    /\ UNCHANGED <<web_server, flowsheets, dsm, content, nmem,
                   max_saved_versions, saves>>

\* GET path?query
Get(path, query, diag) ==
    /\ UNCHANGED <<adding, updating, registered>>
    /\ web_server
    /\ ops < MaxOps
    /\ ops' = ops + 1
    /\ LET r == do_GET(settings_block, dsm, flowsheets, content, path, query,
                       diag) IN
       /\ content' = r.content
       /\ last' = [NoOp EXCEPT
                     !.op = "get", !.path = path, !.query = query,
                     !.queries = r.queries, !.id = r.id, !.status = r.status,
                     !.code = r.code, !.doc = r.doc, !.saved = r.saved,
                     !.changed = r.content # content, !.setting = r.setting]
    /\ UNCHANGED <<web_server, settings_block, flowsheets, dsm, nmem,
                   max_saved_versions, saves>>

\* PUT path?query with a body
PutRequest(path, query, body, diag) ==
    /\ UNCHANGED <<adding, updating, registered>>
    /\ web_server
    /\ ops < MaxOps
    /\ ops' = ops + 1
    /\ LET r == do_PUT(dsm, flowsheets, content, path, query, body, diag) IN
       /\ content' = r.content
       /\ last' = [NoOp EXCEPT
                     !.op = "put", !.path = path, !.query = query,
                     !.queries = r.queries, !.id = r.id, !.status = r.status,
                     !.code = r.code, !.sent = body.doc, !.saved = r.saved,
                     !.changed = r.content # content,
                     !.responses = r.responses]
    /\ UNCHANGED <<web_server, settings_block, flowsheets, dsm, nmem,
                   max_saved_versions, saves>>

InitRequest ==
    /\ InitProcess
    /\ content = EmptyMap
    /\ max_saved_versions = DefaultMaxSavedVersions

NextRequest ==
    \/ \E m \in RequestModels, n \in RequestNames, s \in SaveArgs,
          t \in RequestIntervals : Visualize(m, n, s[1], s[2], t, s[3], FALSE)
    \/ \E k \in SettingKeys, v \in RequestIntervals : AddSetting(k, v)
    \/ \E p \in GetPaths, q \in RequestQueries : Get(p, q, "ok")
    \/ \E p \in PutPaths, q \in RequestQueries, b \in RequestBodies :
          PutRequest(p, q, b, "ok")

SpecRequest == InitRequest /\ [][NextRequest]_vars

\* ------------------------------------------------------------ threaded runs
\* The caller's thread runs visualize(flowsheet, name, save=False) and with it
\* add_flowsheet; the server thread that start() spawned runs update_flowsheet
\* for GET /fs requests. Neither takes a lock, so the statements of the two
\* interleave: each action below is one access to the registries.
RaceNames == {<<"x">>}
RaceModels == {GoodModel(d) : d \in LiveDocs}
RaceInterval == 5000

\* AddModel leaving the model registry as it is.
AddModel_unbound(flowsheet, name) ==
    /\ adding.pc = "idle"
    /\ ops < MaxOps
    /\ nmem < MaxMem
    /\ ops' = ops + 1
    /\ nmem' = nmem + 1
    /\ web_server' = TRUE
    /\ settings_block' =
         IF web_server THEN settings_block
         ELSE add_setting(settings_block, <<"save_time_interval">>, 5000)
    /\ LET id == canonical_flowsheet_name(name)
           store == MemoryStore(nmem + 1)
       IN  /\ adding' = [pc |-> "model", id |-> id, flowsheet |-> flowsheet,
                         store |-> store, saved |-> NoLoad]
           /\ registered' = registered \cup {<<id, flowsheet, store>>}
    /\ UNCHANGED <<flowsheets, dsm, content, max_saved_versions, last, saves,
                   updating>>

\* visualize up to add_flowsheet's `self._flowsheets[id_] = flowsheet`
AddModel(flowsheet, name) ==
    /\ adding.pc = "idle"
    /\ ops < MaxOps
    /\ nmem < MaxMem
    /\ ops' = ops + 1
    /\ nmem' = nmem + 1
    /\ web_server' = TRUE
    /\ settings_block' =
         IF web_server THEN settings_block
         ELSE add_setting(settings_block, <<"save_time_interval">>, RaceInterval)
    /\ LET id == canonical_flowsheet_name(name)
           store == MemoryStore(nmem + 1)
       IN  /\ flowsheets' = Put(flowsheets, id, flowsheet)
           /\ adding' = [pc |-> "model", id |-> id, flowsheet |-> flowsheet,
                         store |-> store, saved |-> NoLoad]
           /\ registered' = registered \cup {<<id, flowsheet, store>>}
    /\ UNCHANGED <<dsm, content, max_saved_versions, last, saves, updating>>

\* add_flowsheet, `self._dsm.add(id_, store)`
AddStore ==
    /\ adding.pc = "model"
    /\ dsm' = dsm_add(dsm, adding.id, adding.store)
    /\ adding' = [adding EXCEPT !.pc = "store"]
    /\ UNCHANGED <<web_server, settings_block, flowsheets, content, nmem,
                   max_saved_versions, ops, last, saves, updating, registered>>

\* add_flowsheet, from `self.update_flowsheet(id_)` to its return
AddUpdate ==
    /\ adding.pc = "store"
    /\ LET r == FirstSave(dsm, flowsheets, content, adding.id, adding.flowsheet,
                          adding.store)
       IN  /\ content' = r.content
           /\ last' = [NoOp EXCEPT
                         !.op = "add", !.id = adding.id,
                         !.status = RaisedByAdd(r.status), !.doc = r.doc,
                         !.saved = r.saved, !.changed = r.content # content,
                         !.L = adding.flowsheet, !.store = adding.store]
    /\ adding' = NoAdd
    /\ UNCHANGED <<web_server, settings_block, flowsheets, dsm, nmem,
                   max_saved_versions, ops, saves, updating, registered>>

\* The record of an update_flowsheet call that ended, with what it had seen.
Updated(status, doc, saved, changed) ==
    [NoOp EXCEPT !.op = "update", !.id = updating.id, !.status = status,
                 !.code = GetFsCode(status), !.doc = doc, !.saved = saved,
                 !.changed = changed, !.S = updating.saved,
                 !.L = updating.flowsheet, !.store = updating.store]

\* GET /fs?id=...: update_flowsheet, `saved = self._load_flowsheet(id_)`
UpdateLoad(id) ==
    /\ web_server
    /\ updating.pc = "idle"
    /\ ops < MaxOps
    /\ ops' = ops + 1
    /\ LET ld == dsm_load(dsm, content, id)
           \* the error update_flowsheet raises when the load fails
           u == update_flowsheet(dsm, EmptyMap, content, id)
       IN  IF ld.status = "ok"
           THEN /\ updating' = [pc |-> "loaded", id |-> id, flowsheet |-> NoModel,
                                store |-> dsm[id], saved |-> ld]
                /\ last' = last
           ELSE /\ updating' = NoUpdate
                /\ last' = [NoOp EXCEPT !.op = "update", !.id = id,
                                        !.status = u.status,
                                        !.code = GetFsCode(u.status)]
    /\ UNCHANGED <<web_server, settings_block, flowsheets, dsm, content, nmem,
                   max_saved_versions, saves, adding, registered>>

\* update_flowsheet, `obj = self._get_flowsheet_obj(id_)`
UpdateGet ==
    /\ updating.pc = "loaded"
    /\ IF updating.id \in DOMAIN flowsheets
       THEN /\ updating' = [updating EXCEPT !.pc = "got",
                                            !.flowsheet = flowsheets[updating.id]]
            /\ last' = last
       ELSE /\ updating' = NoUpdate
            /\ last' = Updated("FlowsheetNotFoundInMemory", EmptyDoc, FALSE, FALSE)
    /\ UNCHANGED <<web_server, settings_block, flowsheets, dsm, content, nmem,
                   max_saved_versions, ops, saves, adding, registered>>

\* update_flowsheet, from the serialization to the return
UpdateSave ==
    /\ updating.pc = "got"
    /\ LET ser == _serialize_flowsheet(updating.flowsheet)
           r == IF ser.status = "ValueError" THEN Failed("ProcessingError", content)
                ELSE IF ser.status # "ok" THEN Failed(ser.status, content)
                ELSE Reconcile(dsm, content, updating.id, updating.saved.doc,
                               ser.doc)
       IN  /\ content' = r.content
           /\ last' = Updated(r.status, r.doc, r.saved, r.content # content)
    /\ updating' = NoUpdate
    /\ UNCHANGED <<web_server, settings_block, flowsheets, dsm, nmem,
                   max_saved_versions, ops, saves, adding, registered>>

\* A new process, or one whose first visualize(flowsheet, "x") has returned.
InitRace ==
    \/ /\ InitProcess
       /\ content = EmptyMap
       /\ max_saved_versions = DefaultMaxSavedVersions
    \/ \E m \in RaceModels, n \in RaceNames :
          LET id == canonical_flowsheet_name(n)
              store == FileStore(_pick_default_save_location(n))
          IN  /\ web_server = TRUE
              /\ settings_block = add_setting(<< >>, <<"save_time_interval">>,
                                              RaceInterval)
              /\ flowsheets = Put(EmptyMap, id, m)
              /\ dsm = dsm_add(EmptyMap, id, store)
              /\ content = Put(EmptyMap, store.loc, Holds(m.doc))
              /\ nmem = 0
              /\ ops = 0
              /\ last = NoOp
              /\ saves = <<>>
              /\ adding = NoAdd
              /\ updating = NoUpdate
              /\ registered = {<<id, m, store>>}
              /\ max_saved_versions = DefaultMaxSavedVersions

NextRace ==
    \/ \E m \in RaceModels, n \in RaceNames : AddModel(m, n)
    \/ AddStore
    \/ AddUpdate
    \/ \E n \in RaceNames : UpdateLoad(canonical_flowsheet_name(n))
    \/ UpdateGet
    \/ UpdateSave

SpecRace == InitRace /\ [][NextRace]_vars

\* --------------------------------------------------- runs with saves by PUT
\* The caller's thread runs visualize(flowsheet, name) for a name whose file is
\* there, and with it add_flowsheet and its update_flowsheet; the server thread
\* answers PUT /fs requests meanwhile.
LostNames == {<<"x">>}
LostBodies == {JsonBody(d) : d \in {m \in Docs : "layout" \in DOMAIN m}}

\* visualize with the defaults, the saved file being there, up to
\* add_flowsheet's `self._flowsheets[id_] = flowsheet`
AddSavedModel(flowsheet, name) ==
    /\ adding.pc = "idle"
    /\ ops < MaxOps
    /\ LET ds == datastore_for(content, nmem, name, SaveDefault, TRUE, FALSE,
                               max_saved_versions)
           id == canonical_flowsheet_name(name)
       IN  /\ Exists(content, _pick_default_save_location(name))
           /\ ds.status = "ok"
           /\ flowsheets' = Put(flowsheets, id, flowsheet)
           /\ adding' = [pc |-> "model", id |-> id, flowsheet |-> flowsheet,
                         store |-> ds.store, saved |-> NoLoad]
           /\ registered' = registered \cup {<<id, flowsheet, ds.store>>}
    /\ ops' = ops + 1
    /\ UNCHANGED <<web_server, settings_block, dsm, content, nmem,
                   max_saved_versions, last, saves, updating>>

\* add_flowsheet's update_flowsheet, `saved = self._load_flowsheet(id_)`; when
\* the load fails the rest of add_flowsheet follows at once.
AddLoad ==
    /\ adding.pc = "store"
    /\ LET ld == dsm_load(dsm, content, adding.id) IN
       IF ld.status = "ok"
       THEN /\ adding' = [adding EXCEPT !.pc = "loaded", !.saved = ld]
            /\ UNCHANGED <<web_server, settings_block, flowsheets, dsm, content,
                           nmem, max_saved_versions, ops, last, saves, updating,
                           registered>>
       ELSE AddUpdate

\* add_flowsheet's update_flowsheet, from `obj = self._get_flowsheet_obj(id_)`
\* to the return of add_flowsheet
AddMerge ==
    /\ adding.pc = "loaded"
    /\ LET ser == IF adding.id \in DOMAIN flowsheets
                  THEN _serialize_flowsheet(flowsheets[adding.id])
                  ELSE [status |-> "FlowsheetNotFoundInMemory", doc |-> EmptyDoc]
           r == IF ser.status = "ValueError" THEN Failed("ProcessingError", content)
                ELSE IF ser.status # "ok" THEN Failed(ser.status, content)
                ELSE Reconcile(dsm, content, adding.id, adding.saved.doc, ser.doc)
       IN  /\ content' = r.content
           /\ last' = [NoOp EXCEPT
                         !.op = "add", !.id = adding.id,
                         !.status = RaisedByAdd(r.status), !.doc = r.doc,
                         !.saved = r.saved, !.changed = r.content # content,
                         !.S = adding.saved, !.L = adding.flowsheet,
                         !.store = adding.store]
    /\ adding' = NoAdd
    /\ UNCHANGED <<web_server, settings_block, flowsheets, dsm, nmem,
                   max_saved_versions, ops, saves, updating, registered>>

\* PUT /fs?id=... with a body, answered by the server thread
PutSave(id, body) ==
    /\ web_server
    /\ updating.pc = "idle"
    /\ ops < MaxOps
    /\ ops' = ops + 1
    /\ LET r == do_PUT_fs(dsm, content, id, body) IN
       /\ content' = r.content
       /\ last' = [NoOp EXCEPT
                     !.op = "put_fs", !.path = "/fs", !.id = id,
                     !.status = r.status, !.code = r.code, !.sent = body.doc,
                     !.saved = r.saved, !.changed = r.content # content,
                     !.store = IF id \in DOMAIN dsm THEN dsm[id] ELSE NoStore]
    /\ UNCHANGED <<web_server, settings_block, flowsheets, dsm, nmem,
                   max_saved_versions, saves, adding, updating, registered>>

\* A process whose first visualize(flowsheet, name) has returned.
InitLost == InitRace /\ web_server

NextLost ==
    \/ \E m \in RaceModels, n \in LostNames : AddSavedModel(m, n)
    \/ AddStore
    \/ AddLoad
    \/ AddMerge
    \/ \E n \in LostNames, b \in LostBodies :
          PutSave(canonical_flowsheet_name(n), b)

SpecLost == InitLost /\ [][NextLost]_vars

\* ------------------------------------------------------ re-registration runs
\* A process whose first visualize(flowsheet, "x") has returned calls visualize
\* for the same name again, with any save arguments, and its server answers
\* GET /fs and PUT /fs requests; one operation at a time.
RebindNames == {<<"x">>}
RebindIds == {canonical_flowsheet_name(n) : n \in RebindNames}

InitRebind == InitRace /\ web_server

NextRebind ==
    \/ \E m \in Models, n \in RebindNames, s \in SaveArgs, t \in Intervals :
          Visualize(m, n, s[1], s[2], t, s[3], FALSE)
    \/ \E id \in RebindIds : GetFs(id)
    \/ \E id \in RebindIds, b \in Bodies : PutFs(id, b)

SpecRebind == InitRebind /\ [][NextRebind]_vars

\* ------------------------------------------------------------ registry runs
\* The caller's thread registers a model under a new name, some of them not
\* their own canonical form, or again under "x"; the server thread answers
\* GET /fs and PUT /fs requests for the ids of those names meanwhile.
RegistryNames == {<<"x">>, <<"x", "~">>}
RegistryIds == {canonical_flowsheet_name(n) : n \in RegistryNames}

InitRegistry == InitRace

NextRegistry ==
    \/ \E m \in RaceModels, n \in RegistryNames : AddModel(m, n)
    \/ \E m \in RaceModels, n \in RegistryNames : AddSavedModel(m, n)
    \/ AddStore
    \/ AddLoad
    \/ AddMerge
    \/ \E id \in RegistryIds : UpdateLoad(id)
    \/ UpdateGet
    \/ UpdateSave
    \/ \E id \in RegistryIds, b \in LostBodies : PutSave(id, b)

SpecRegistry == InitRegistry /\ [][NextRegistry]_vars

\* ------------------------------------------------------------ dispatch runs
\* The server of a process whose first visualize(flowsheet, "x") has returned
\* answers requests to every route and to paths that are no route, for the
\* registered id, an id that is not registered, and no id.
DispatchQueries ==
    {<<>>,
     <<"id", "=", "x">>,
     <<"id", "=", "v">>,
     <<"setting_key", "=", "save_time_interval">>}
DiagOutcomes == {"ok", "Exception"}
DispatchBodies ==
    {DiagnosticBody("json", id, f) : id \in {<<"x">>, <<"v">>},
                                     f \in {"known", "unknown"}}
    \cup {DiagnosticBody("malformed", <<>>, ""), DiagnosticBody("bytes", <<>>, "")}
\* <<path, query, diag>>
GetRequests ==
    {<<p, q, "ok">> : p \in {"/app", "/fs", "/setting", "/other"},
                      q \in DispatchQueries}
    \cup {<<"/diagnostics", q, d>> : q \in DispatchQueries, d \in DiagOutcomes}
\* <<path, query, body, diag>>
PutRequests ==
    {<<"/fs", q, b, "ok">> :
        q \in DispatchQueries, b \in {c \in DispatchBodies : c.id # <<"v">>}}
    \cup {<<"/run_diagnostic", <<>>, b, d>> :
             b \in DispatchBodies, d \in DiagOutcomes}
    \cup {<<"/other", q, DiagnosticBody("json", <<"x">>, "known"), "ok">> :
             q \in DispatchQueries}

InitDispatch == InitRace /\ web_server

NextDispatch ==
    \/ \E r \in GetRequests : Get(r[1], r[2], r[3])
    \/ \E r \in PutRequests : PutRequest(r[1], r[2], r[3], r[4])

SpecDispatch == InitDispatch /\ [][NextDispatch]_vars

\* -------------------------------------------------------- registration runs
\* visualize calls in an empty directory for names that are their own
\* canonical form and names that are not, two of them with the same form.
RegisterNames == Names \cup {<<"x", "-">>}

InitRegister ==
    /\ InitProcess
    /\ content = EmptyMap
    /\ max_saved_versions = DefaultMaxSavedVersions

NextRegister ==
    \E m \in Models, n \in RegisterNames, s \in SaveArgs, t \in Intervals :
        Visualize(m, n, s[1], s[2], t, s[3], FALSE)

SpecRegister == InitRegister /\ [][NextRegister]_vars

\* ------------------------------------------------------------- naming runs
\* canonical_flowsheet_name applied to every string of up to MaxLen characters
\* over a letter, the dot, the dash, the blank and the tilde.
NameChars == {"a", ".", "-", " ", "~"}
NameStrings == UNION {[1..n -> NameChars] : n \in 0..MaxLen}

\* FlowsheetServer.canonical_flowsheet_name(name), called on its own
Canonicalize(name) ==
    /\ UNCHANGED <<adding, updating, registered>>
    /\ ops < MaxOps
    /\ ops' = ops + 1
    /\ last' = [NoOp EXCEPT !.op = "canonical", !.name = name,
                            !.id = canonical_flowsheet_name(name)]
    /\ UNCHANGED <<web_server, settings_block, flowsheets, dsm, content, nmem,
                   max_saved_versions, saves>>

InitName ==
    /\ InitProcess
    /\ content = EmptyMap
    /\ max_saved_versions = DefaultMaxSavedVersions

NextName == \E s \in NameStrings : Canonicalize(s)

SpecName == InitName /\ [][NextName]_vars

\* ------------------------------------------------------------- parsing runs
\* _parse_flowsheet_url applied to every query of up to MaxQuery characters
\* over two words and the two separators.
QueryChars == {"id", "v", "=", "&"}
QueryStrings == UNION {[1..n -> QueryChars] : n \in 0..MaxQuery}

\* A request with the given query has arrived.
InitQuery ==
    /\ web_server = TRUE
    /\ settings_block = [k \in {} |-> 0]
    /\ flowsheets = EmptyMap
    /\ dsm = EmptyMap
    /\ content = EmptyMap
    /\ nmem = 0
    /\ ops = 0
    /\ saves = <<>>
    /\ adding = NoAdd
    /\ updating = NoUpdate
    /\ registered = {}
    /\ max_saved_versions = DefaultMaxSavedVersions
    /\ \E q \in QueryStrings :
          last = [NoOp EXCEPT !.op = "request", !.path = "/fs", !.query = q]

\* _parse_flowsheet_url(self.path), called on its own
ParseQuery ==
    /\ UNCHANGED <<adding, updating, registered>>
    /\ last.op = "request"
    /\ last' = [last EXCEPT !.op = "parse",
                            !.queries = _parse_flowsheet_url(last.query)]
    /\ UNCHANGED <<web_server, settings_block, flowsheets, dsm, content, nmem,
                   max_saved_versions, ops, saves>>

NextQuery == ParseQuery

SpecQuery == InitQuery /\ [][NextQuery]_vars

\* ================================================================== claims
\* What the store of the last operation holds now.
StoredNow == StoreLoad(content, last.store)

\* The last operation ran update_flowsheet (GET /fs, or visualize through
\* add_flowsheet) with a stored document S and a live document L at hand.
Reconciled ==
    /\ last.op \in {"get_fs", "visualize"}
    /\ last.S.status = "ok"
    /\ last.L.kind = "ok"

\* C1: when the stored document S and the live document L differ,
\* update_flowsheet returns M with M[k] = L[k] for every key of L, M[k] = S[k]
\* for every key of S alone, and no other key; the store holds M afterwards.
C1_MergedAndStored ==
    (Reconciled /\ last.S.doc # last.L.doc) =>
        LET S == last.S.doc
            L == last.L.doc
            M == last.doc
        IN  /\ last.status = "ok"
            /\ DOMAIN M = DOMAIN S \cup DOMAIN L
            /\ \A k \in DOMAIN L : M[k] = L[k]
            /\ \A k \in DOMAIN S \ DOMAIN L : M[k] = S[k]
            /\ StoredNow = [status |-> "ok", doc |-> M]

\* A live value replaced a different stored one while a key of the stored
\* document alone was kept.
C1_Witness ==
    /\ Reconciled /\ last.status = "ok"
    /\ \E k \in DOMAIN last.S.doc \cap DOMAIN last.L.doc :
          last.S.doc[k] # last.L.doc[k] /\ last.doc[k] = last.L.doc[k]
    /\ \E k \in DOMAIN last.S.doc \ DOMAIN last.L.doc :
          last.doc[k] = last.S.doc[k]

\* C2: when the stored document equals the live document, update_flowsheet
\* saves nothing, leaves every store as it was and returns the stored document.
C2_NoDiffNoSave ==
    (Reconciled /\ last.S.doc = last.L.doc) =>
        /\ last.status = "ok"
        /\ ~last.saved
        /\ ~last.changed
        /\ last.doc = last.S.doc
        /\ StoredNow = last.S

C2_Witness ==
    /\ last.op = "get_fs" /\ last.code = 200
    /\ last.S.status = "ok" /\ last.L.kind = "ok"
    /\ last.S.doc = last.L.doc
    /\ DOMAIN last.S.doc # {}
    /\ ~last.saved

\* C3: a second update_flowsheet(id) right after a first one, with no model
\* change and no PUT in between, computes an empty diff, saves nothing and
\* returns the document the first one returned.
C3_SecondUpdateIdle ==
    [][(/\ Reconciled /\ last.status = "ok"
        /\ last'.op = "get_fs" /\ last'.id = last.id)
       => (/\ last'.status = "ok"
           /\ last'.S.doc = last'.L.doc
           /\ ~last'.saved
           /\ last'.doc = last.doc)]_vars

\* C4: add_flowsheet keeps what the store held: when the store holds a
\* document, every key the live document lacks is still stored afterwards; when
\* it holds nothing, the live document is saved; after a successful add the
\* store agrees with the live document on every live key, and update_flowsheet
\* does not fail with FlowsheetNotFoundInDatastore.
C4_AddKeepsStored ==
    (last.op = "visualize" /\ last.S.status # "none") =>
        /\ last.S.status = "ok" =>
              /\ StoredNow.status = "ok"
              /\ \A k \in DOMAIN last.S.doc :
                    (last.L.kind # "ok" \/ k \notin DOMAIN last.L.doc) =>
                        /\ k \in DOMAIN StoredNow.doc
                        /\ StoredNow.doc[k] = last.S.doc[k]
        /\ (last.S.status = "ValueError" /\ last.status = "ok") =>
              /\ last.saved
              /\ StoredNow = [status |-> "ok", doc |-> last.L.doc]
        /\ last.status = "ok" =>
              /\ StoredNow.status = "ok"
              /\ \A k \in DOMAIN last.L.doc :
                    k \in DOMAIN StoredNow.doc /\ StoredNow.doc[k] = last.L.doc[k]
              /\ update_flowsheet(dsm, flowsheets, content, last.id).status
                    # "FlowsheetNotFoundInDatastore"

\* An add onto a store whose document has a key the live document lacks.
C4_Witness ==
    /\ last.op = "visualize" /\ last.status = "ok"
    /\ last.S.status = "ok"
    /\ \E k \in DOMAIN last.S.doc \ DOMAIN last.L.doc : k \in DOMAIN StoredNow.doc
    /\ \E k \in DOMAIN last.L.doc : k \notin DOMAIN last.S.doc

C6_GetFsStatus ==
    (last.op = "get_fs" /\ last.id # None) =>
        /\ last.code = 404 <=> last.id \notin DOMAIN dsm
        /\ last.code = 404 <=> last.status = "FlowsheetUnknown"
        /\ last.status \in {"FlowsheetNotFoundInDatastore",
                            "FlowsheetNotFoundInMemory", "ProcessingError"} =>
              last.code = 500
        /\ last.status = "ok" =>
              /\ last.code = 200
              /\ last.doc = StoredNow.doc
              /\ \A k \in DOMAIN last.L.doc : last.doc[k] = last.L.doc[k]

\* A GET for a registered id whose flowsheet cannot be serialized.
C6_Witness ==
    /\ last.op = "get_fs"
    /\ last.status = "ProcessingError"
    /\ last.code = 500
    /\ last.S.status = "ok"

\* C7: PUT /fs?id=X with an unregistered id or with a body that is no document
\* is answered 400 and changes no store; with a registered id and a document
\* it is answered 200 and the store holds the document sent.
C7_PutFsStatus ==
    (last.op = "put_fs" /\ last.id # None) =>
        /\ (last.id \notin DOMAIN dsm \/ last.L.kind # "json") =>
              last.code = 400 /\ ~last.changed
        /\ (last.id \in DOMAIN dsm /\ last.L.kind = "json") =>
              /\ last.code = 200
              /\ StoredNow = [status |-> "ok", doc |-> last.sent]

\* ---------------------------------------------------- save-path resolution
\* The last operation resolved a save path without overwrite.
Resolved == last.op = "resolve" /\ ~last.args.overwrite

\* C8: without overwrite the path resolved is P when P does not exist, and
\* otherwise NAME-k for the smallest k >= 1 such that NAME-k does not exist;
\* it never names an existing file, and is fixed by the directory contents.
C8_FirstFreeVersion ==
    (Resolved /\ last.status = "ok") =>
        LET P == last.args.save_path
            dir == last.args.dir
            got == last.store.loc
        IN  /\ P \notin dir => got = P
            /\ P \in dir =>
                  \E k \in 1..(MaxFileNo + 1) :
                      /\ got = VersionPath(last.name, k)
                      /\ \A j \in 1..(k - 1) : VersionPath(last.name, j) \in dir
            /\ got \notin dir
            /\ DOMAIN content = dir

\* P and NAME-1 exist, NAME-2 is chosen.
C8_Witness ==
    /\ Resolved /\ last.status = "ok"
    /\ last.args.save_path \in last.args.dir
    /\ VersionPath(last.name, 1) \in last.args.dir
    /\ last.store.loc = VersionPath(last.name, 2)

\* C9: with a ceiling MAX > 0 and P existing, resolution without overwrite
\* fails with TooManySavedVersions exactly when NAME-1 ... NAME-MAX all exist;
\* with ceiling 0 it never fails so.
C9_CeilingExact ==
    (Resolved /\ last.args.save_path \in last.args.dir) =>
        IF last.args.max_versions > 0
        THEN last.status = "TooManySavedVersions" <=>
                \A k \in 1..last.args.max_versions :
                    VersionPath(last.name, k) \in last.args.dir
        ELSE last.status # "TooManySavedVersions"

\* ------------------------------------------------------------------ save runs
\* Three visualize calls for "x" with a file store, each of which persisted
\* its document.
ThreeSaves ==
    /\ Len(saves) = 3
    /\ \A i \in 1..3 :
          saves[i].name = <<"x">> /\ saves[i].file /\ saves[i].status = "ok"

Bound == [i \in 1..Len(saves) |-> saves[i].loc]

C11_OverwriteReplaces ==
    LET n == Len(saves) IN
    (/\ n >= 1
     /\ saves[n].existed /\ saves[n].overwrite /\ ~saves[n].load_from_saved
     /\ last.L.kind = "ok") =>
        /\ saves[n].status = "ok"
        /\ saves[n].loc = _pick_default_save_location(saves[n].name)
        /\ content[saves[n].loc] = Holds(last.L.doc)

\* C12: a call of _handle_existing_save_path without overwrite leaves the set
\* of existing files and what each of them holds as they were, whether it
\* returns a path or raises TooManySavedVersions.
C12_ResolveKeepsFiles ==
    [][(last'.op = "resolve" /\ ~last'.args.overwrite) => content' = content]_vars

\* The call failed on the ceiling in a directory that holds numbered versions,
\* and every file that was there is still there.
C12_Witness ==
    /\ Resolved
    /\ last.status = "TooManySavedVersions"
    /\ VersionPath(last.name, 1) \in last.args.dir
    /\ DOMAIN content = last.args.dir

\* Two dashes in a row somewhere in s.
DoubleDash(s) == \E i \in 1..(Len(s) - 1) : s[i] = "-" /\ s[i + 1] = "-"

\* C13: canonical_flowsheet_name applied to its own result gives that result
\* again, and the result never holds two consecutive dashes.
C13_Idempotent ==
    last.op = "canonical" =>
        /\ canonical_flowsheet_name(last.id) = last.id
        /\ ~DoubleDash(last.id)

\* A name with a run of dashes and reserved characters was collapsed.
C13_Witness ==
    /\ last.op = "canonical"
    /\ DoubleDash(ReplaceReserved(last.name))
    /\ \E i \in 1..Len(last.name) : last.name[i] \notin KeptChars
    /\ Len(last.id) < Len(last.name)

\* C14: canonical_flowsheet_name(s) is s with every character outside
\* [A-Za-z0-9._~] replaced by a dash and every run of dashes collapsed to one;
\* the tilde is kept.
C14_KeepsTilde ==
    last.op = "canonical" =>
        LET s == last.name
            replaced == [i \in 1..Len(s) |->
                           IF s[i] \in Lower \cup Upper \cup Digit
                                         \cup {".", "_", "~"}
                           THEN s[i] ELSE "-"]
        IN  last.id = CollapseDashes(replaced)

\* visualize got as far as add_flowsheet (it had a store to register).
Added == last.op = "visualize" /\ last.S.status # "none"

\* C15: add_flowsheet registers the model and the store under the canonical
\* form of the name and returns that id; the id differs from the name exactly
\* when canonicalization changed the name; a visualize call that returns uses
\* the returned id in its URL and result.
C15_RegisteredUnderCanonical ==
    Added =>
        LET id == canonical_flowsheet_name(last.name) IN
        /\ last.id = id
        /\ id \in DOMAIN flowsheets /\ flowsheets[id] = last.L
        /\ id \in DOMAIN dsm /\ dsm[id] = last.store
        /\ (last.id # last.name) <=> (id # last.name)
        /\ last.status = "ok" => last.url = last.id

\* A name that is not canonical was registered over the entry of a name with
\* the same canonical form, and the call returned the canonical id.
C15_Witness ==
    /\ Added /\ last.status = "ok"
    /\ last.id # last.name
    /\ last.url = last.id
    /\ flowsheets[last.id] = last.L /\ dsm[last.id] = last.store
    /\ \E f \in DOMAIN content : f = last.id /\ f # last.store.loc

\* The '&'-separated tokens of the query last parsed, and those of them that
\* are a single name=value pair.
Tokens == Split(last.query, "&")
Equals(t) == {i \in 1..Len(t) : t[i] = "="}
Pairs == {i \in 1..Len(Tokens) : Cardinality(Equals(Tokens[i])) = 1}
KeyOf(t) == SubSeq(t, 1, (CHOOSE i \in Equals(t) : TRUE) - 1)
ValueOf(t) == SubSeq(t, (CHOOSE i \in Equals(t) : TRUE) + 1, Len(t))

\* C18: _parse_flowsheet_url returns, for every query, the mapping of exactly
\* the tokens with one '=' (the last token of a key giving its value); the
\* other tokens change nothing, so a well-formed id token is always found.
C18_TolerantParse ==
    last.op = "parse" =>
        LET map == last.queries.map IN
        /\ last.queries.none <=> last.query = <<>>
        /\ DOMAIN map = {KeyOf(Tokens[i]) : i \in Pairs}
        /\ \A i \in Pairs :
              (\A j \in Pairs : j > i => KeyOf(Tokens[j]) # KeyOf(Tokens[i]))
                  => map[KeyOf(Tokens[i])] = ValueOf(Tokens[i])
        /\ (\E i \in Pairs : KeyOf(Tokens[i]) = <<"id">>)
              => QueryGet(last.queries, <<"id">>) # None

\* An id token between two tokens that are no pairs was found.
C18_Witness ==
    /\ last.op = "parse"
    /\ \E i \in Pairs :
          /\ Tokens[i] = <<"id", "=", "v">>
          /\ \E j \in 1..(i - 1) : j \notin Pairs
          /\ \E j \in (i + 1)..Len(Tokens) : j \notin Pairs
    /\ QueryGet(last.queries, <<"id">>) = <<"v">>

\* C16: a GET /setting with a setting_key is answered 200 with the value set
\* for the key, or with None when the key was never set, and leaves the
\* settings block as it was.
C16_GetSettingNeverFails ==
    [][LET key == QueryGet(last'.queries, <<"setting_key">>) IN
       (last'.op = "get" /\ last'.path = "/setting" /\ key # None) =>
           /\ last'.code = 200
           /\ last'.setting = IF key \in DOMAIN settings_block
                              THEN SettingValue(settings_block[key])
                              ELSE NoSetting
           /\ settings_block' = settings_block]_vars

\* A key that was never set was asked for, and answered with None.
C16_Witness ==
    /\ last.op = "get" /\ last.path = "/setting"
    /\ QueryGet(last.queries, <<"setting_key">>) = <<"v">>
    /\ <<"v">> \notin DOMAIN settings_block
    /\ <<"save_time_interval">> \in DOMAIN settings_block
    /\ last.code = 200 /\ last.setting = NoSetting

\* C17: a setting, once set, has the same value in every later state, whatever
\* visualize calls, add_setting calls and requests follow.
C17_SetOnce ==
    [][\A k \in DOMAIN settings_block :
          k \in DOMAIN settings_block' /\ settings_block'[k] = settings_block[k]]_vars

\* The last request has a token that is a pair with the given key.
HasParameter(key) == \E i \in Pairs : KeyOf(Tokens[i]) = key

\* C19: GET /app, GET /fs and PUT /fs without an id parameter, and GET /setting
\* without a setting_key parameter, are answered 400 before any method of the
\* server is called, and leave every store as it was.
C19_MissingParameter ==
    (/\ last.op \in {"get", "put"}
     /\ \/ last.path \in {"/app", "/fs"} /\ ~HasParameter(<<"id">>)
        \/ last.path = "/setting" /\ ~HasParameter(<<"setting_key">>)) =>
        /\ last.code = 400
        /\ last.status \in {"no id", "no setting_key"}
        /\ ~last.saved /\ ~last.changed

\* A GET /fs whose query names the flowsheet of the server in a token that is
\* no pair was refused.
C19_Witness ==
    /\ last.op = "get" /\ last.path = "/fs"
    /\ ~HasParameter(<<"id">>) /\ last.query = <<"id", "=", "v", "=", "v">>
    /\ last.code = 400
    /\ <<"v">> \in DOMAIN flowsheets \cap DOMAIN dsm
    /\ StoreLoad(content, dsm[<<"v">>]).status = "ok"

\* C20: an update_flowsheet call that runs while add_flowsheet registers the
\* same id sees a model and a store that were registered together: the pair
\* from before the add or the pair the add brings, never one of each.
C20_NoTornPair ==
    updating.pc = "got" =>
        <<updating.id, updating.flowsheet, updating.store>> \in registered

\* C21: when a PUT /fs has saved a document for an id after the update_flowsheet
\* of an add_flowsheet call loaded the stored document of that id, the call
\* does not save its merged document over the one the PUT saved.
C21_NoLostSave ==
    [][(/\ adding.pc = "loaded" /\ adding'.pc = "idle"
        /\ last.op = "put_fs" /\ last.saved /\ last.id = adding.id
        /\ StoreLoad(content, dsm[adding.id]) # adding.saved)
          => content' = content]_vars

\* C22: a visualize call that reaches add_flowsheet binds the id to the store
\* it was given, and no operation changes a file or buffer that no id is bound
\* to afterwards: once an id is bound to another store, the store it was bound
\* to keeps its content.
C22_PriorStoreUntouched ==
    [][/\ (last'.op = "visualize" /\ last'.S.status # "none")
            => dsm'[last'.id] = last'.store
       /\ \A loc \in DOMAIN content :
             (\A id \in DOMAIN dsm' : dsm'[id].loc # loc)
                 => loc \in DOMAIN content' /\ content'[loc] = content[loc]]_vars

\* A PUT saved into the memory store the id was re-registered with, and the
\* file it was bound to before holds what it held.
C22_Witness ==
    /\ last.op = "put_fs" /\ last.saved
    /\ last.store.kind = "mem" /\ dsm[last.id] = last.store
    /\ \E id \in RebindIds, m \in RaceModels :
          /\ <<id, m, FileStore(id)>> \in registered
          /\ StoreLoad(content, FileStore(id)) = [status |-> "ok", doc |-> m.doc]
          /\ StoredNow.doc # m.doc

\* C23: every request to /app, /fs, /setting, /diagnostics (GET) and to /fs,
\* /run_diagnostic (PUT) ends with a response of the success, request-error,
\* not-found or internal-error class; no exception leaves the handler.
C23_NothingUncaught ==
    (/\ last.op \in {"get", "put"}
     /\ last.path \in {"/app", "/fs", "/setting", "/diagnostics",
                       "/run_diagnostic"}) =>
        last.code \in {200, 400, 404, 500}

\* C25: do_PUT writes exactly one response for every path and body.
C25_OneResponse ==
    last.op = "put" => last.responses = 1


\* C24: when the serializer fails during add_flowsheet (in its update or in
\* its first save), add_flowsheet raises ProcessingError, which visualize
\* reports as VisualizerError; the serializer's own exception never shows.
C24_SerializerFailureWrapped ==
    (/\ Added
     /\ last.S.status \in {"ok", "ValueError"}
     /\ last.L.kind # "ok") =>
        last.status = "VisualizerError"


\* C26: while add_flowsheet calls and requests interleave, every id the store
\* registry binds is bound in the model registry and is its own canonical
\* form, and no update fails with FlowsheetNotFoundInMemory.
C26_StoreBoundModelBound ==
    /\ \A id \in DOMAIN dsm :
          id \in DOMAIN flowsheets /\ canonical_flowsheet_name(id) = id
    /\ last.status # "FlowsheetNotFoundInMemory"

\* Between the two registry writes of an add_flowsheet that registers "x"
\* again, an update of "x" has read the model registry and got the new model.
C26_Witness ==
    /\ adding.pc = "model"
    /\ updating.pc = "got"
    /\ updating.id = adding.id
    /\ updating.flowsheet = adding.flowsheet
    /\ <<adding.id, adding.flowsheet, dsm[adding.id]>> \notin registered


\* C27: a visualize whose add_flowsheet raises leaves both registries with
\* the bindings they had before the call.
C27_FailedAddLeavesRegistries ==
    [][(/\ last'.op = "visualize"
        /\ last'.S.status # "none"
        /\ last'.status # "ok")
          => (flowsheets' = flowsheets /\ dsm' = dsm)]_vars

====
